---- MODULE Spec2Model ----
(***************************************************************************)
(* A model of the chess rules sandbox of src/src/main.rs: the Board (the   *)
(* position map, the side to move, the move history), move generation      *)
(* (legal_moves), move application (make_move), the short algebraic        *)
(* parser (parse_alg) and formatter (alg), and the read loop of main.      *)
(***************************************************************************)
EXTENDS Integers, Sequences, FiniteSets, TLC

VARIABLES
    pieces,      \* Board.pieces: the map Coordinate -> Piece (a function on the occupied squares)
    turn_color,  \* Board.turn_color
    moves,       \* Board.moves: the history
    op,          \* the operation that ran last: "new", "legal_moves", "make_move", "parse_alg"
    arg,         \* the argument it was called with
    ret,         \* what it returned
    successes    \* how many make_move calls have returned Ok since Board::new

vars == <<pieces, turn_color, moves, op, arg, ret, successes>>

\* ------------------------------------------------------------- bounds
\* The most moves a run of Spec applies.
MaxMoves == 2
\* The most moves a run of SpecMain applies.
MaxMainMoves == 2
\* The most moves a run of SpecLane applies.
MaxLaneMoves == 10
\* The most moves a run of SpecRaid applies.
MaxRaidMoves == 7

\* -------------------------------------------------------------- types
White == "White"
Black == "Black"
Pawn == "Pawn"
Knight == "Knight"
Bishop == "Bishop"
Rook == "Rook"
Queen == "Queen"
King == "King"

Coordinate(f, r) == [file |-> f, rank |-> r]

Piece(t, c) == [piece_type |-> t, color |-> c, doubled_last_turn |-> FALSE, has_moved |-> FALSE]

Move(f, t, cap, pt) == [from |-> f, to |-> t, capture |-> cap, piece_type |-> pt]

\* What make_move and parse_alg return.
Ok(v) == [ok |-> TRUE, value |-> v]
Err == [ok |-> FALSE]
NoValue == "none"

\* ---------------------------------------------------------- Board::new
pawn_rank(c) == IF c = White THEN 2 ELSE 7
other_rank(c) == IF c = White THEN 1 ELSE 8

back_rank_type(f) ==
    CASE f \in {1, 8} -> Rook
      [] f \in {2, 7} -> Knight
      [] f \in {3, 6} -> Bishop
      [] f = 4 -> Queen
      [] f = 5 -> King

StartSquares == {Coordinate(f, r) : f \in 1..8, r \in {1, 2, 7, 8}}

Board_new ==
    [pieces |-> [sq \in StartSquares |->
                    LET c == IF sq.rank \in {1, 2} THEN White ELSE Black
                    IN  IF sq.rank = pawn_rank(c)
                        THEN Piece(Pawn, c)
                        ELSE Piece(back_rank_type(sq.file), c)],
     turn_color |-> White,
     moves |-> <<>>]

\* The Board the variables hold.
Board == [pieces |-> pieces, turn_color |-> turn_color, moves |-> moves]

\* HashMap::get(..).is_none()
is_none(b, sq) == sq \notin DOMAIN b.pieces

\* ------------------------------------------------------ legal_moves
pawn_dir(c) == IF c = White THEN 1 ELSE -1

\* The Pawn arm pushing its moves with the piece type of the Knight arm.
pawn_moves_tagged_knight(b, sq) ==
    LET dir == pawn_dir(b.pieces[sq].color)
        up1 == Coordinate(sq.file, sq.rank + dir)
        up2 == Coordinate(sq.file, sq.rank + dir + dir)
    IN  (IF is_none(b, up1) THEN {Move(sq, up1, FALSE, Knight)} ELSE {})
        \cup
        (IF ~b.pieces[sq].has_moved /\ is_none(b, up2)
         THEN {Move(sq, up2, FALSE, Knight)} ELSE {})

\* The Pawn arm with the diagonal capture of an opposing piece added.
pawn_moves_diagonal(b, sq) ==
    LET dir == pawn_dir(b.pieces[sq].color)
        up1 == Coordinate(sq.file, sq.rank + dir)
        up2 == Coordinate(sq.file, sq.rank + dir + dir)
    IN  (IF is_none(b, up1) THEN {Move(sq, up1, FALSE, Pawn)} ELSE {})
        \cup
        (IF ~b.pieces[sq].has_moved /\ is_none(b, up2)
         THEN {Move(sq, up2, FALSE, Pawn)} ELSE {})
        \cup
        {Move(sq, d, TRUE, Pawn) :
            d \in {d \in {Coordinate(sq.file - 1, sq.rank + dir), Coordinate(sq.file + 1, sq.rank + dir)} :
                      ~is_none(b, d) /\ b.pieces[d].color # b.pieces[sq].color}}

\* The Pawn arm: up1 when it is empty; up2 when the pawn has not moved and up2 is
\* empty. Neither test looks at the edge of the board, the second does not look at up1.
\* Ranks are i8 in the source; the bounds on the moves applied keep every rank
\* within -10..20, where i8 addition is integer addition.
pawn_moves(b, sq) ==
    LET dir == pawn_dir(b.pieces[sq].color)
        up1 == Coordinate(sq.file, sq.rank + dir)
        up2 == Coordinate(sq.file, sq.rank + dir + dir)
    IN  (IF is_none(b, up1) THEN {Move(sq, up1, FALSE, Pawn)} ELSE {})
        \cup
        (IF ~b.pieces[sq].has_moved /\ is_none(b, up2)
         THEN {Move(sq, up2, FALSE, Pawn)} ELSE {})

KnightOffsets ==
    {<<-2, -1>>, <<-1, -2>>, <<-2, 1>>, <<-1, 2>>, <<2, 1>>, <<1, 2>>, <<2, -1>>, <<1, -2>>}

\* The occupancy test without the four edge comparisons.
knight_target_ok_no_edge(b, d) ==
    is_none(b, d) \/ b.pieces[d].color # b.turn_color

\* The four edge comparisons without the occupancy test.
knight_target_ok_any_color(b, d) ==
    d.file > 0 /\ d.file < 9 /\ d.rank > 0 /\ d.rank < 9

knight_target_ok(b, d) ==
    /\ d.file > 0 /\ d.file < 9 /\ d.rank > 0 /\ d.rank < 9
    /\ (is_none(b, d) \/ b.pieces[d].color # b.turn_color)

\* The Knight arm with a piece of its own colour on the destination not stopping the
\* move.
knight_moves_through_own(b, sq) ==
    {Move(sq, d, ~is_none(b, d), Knight) :
        d \in {d \in {Coordinate(sq.file + o[1], sq.rank + o[2]) : o \in KnightOffsets} :
                  d.file > 0 /\ d.file < 9 /\ d.rank > 0 /\ d.rank < 9}}

\* The Knight arm: cap is set whenever the destination holds a piece.
knight_moves(b, sq) ==
    {Move(sq, d, ~is_none(b, d), Knight) :
        d \in {d \in {Coordinate(sq.file + o[1], sq.rank + o[2]) : o \in KnightOffsets} :
                  knight_target_ok(b, d)}}

\* The match with a King arm that steps one rank ahead onto an empty square.
piece_moves_with_king(b, sq) ==
    CASE b.pieces[sq].piece_type = Pawn -> pawn_moves(b, sq)
      [] b.pieces[sq].piece_type = Knight -> knight_moves(b, sq)
      [] b.pieces[sq].piece_type = King ->
            LET up1 == Coordinate(sq.file, sq.rank + pawn_dir(b.pieces[sq].color))
            IN  IF is_none(b, up1) THEN {Move(sq, up1, FALSE, King)} ELSE {}
      [] OTHER -> {}

piece_moves(b, sq) ==
    CASE b.pieces[sq].piece_type = Pawn -> pawn_moves(b, sq)
      [] b.pieces[sq].piece_type = Knight -> knight_moves(b, sq)
      [] OTHER -> {}

\* legal_moves without the colour test of line 218.
legal_moves_any_color(b) ==
    UNION {piece_moves(b, sq) : sq \in DOMAIN b.pieces}

\* The moves of the Vec legal_moves returns, as a set (the Vec holds no move twice).
legal_moves(b) ==
    UNION {piece_moves(b, sq) : sq \in {s \in DOMAIN b.pieces : b.pieces[s].color = b.turn_color}}

\* -------------------------------------------------------- make_move
abs(n) == IF n < 0 THEN -n ELSE n

\* The turn flip with both branches assigning Black.
other_color_stuck(c) == Black

other_color(c) == IF c = White THEN Black ELSE White

\* The re-inserted piece without has_moved set.
moved_piece_keeps_flag(p, mov) ==
    [p EXCEPT !.doubled_last_turn =
                  IF p.piece_type = Pawn /\ abs(mov.to.rank - mov.from.rank) = 2
                  THEN TRUE ELSE @]

\* The piece as make_move re-inserts it.
moved_piece(p, mov) ==
    [p EXCEPT !.has_moved = TRUE,
              !.doubled_last_turn =
                  IF p.piece_type = Pawn /\ abs(mov.to.rank - mov.from.rank) = 2
                  THEN TRUE ELSE @]

\* The insert without the remove.
relocate_keep_from(ps, mov, p) ==
    [sq \in DOMAIN ps \cup {mov.to} |-> IF sq = mov.to THEN p ELSE ps[sq]]

\* pieces.remove(from); pieces.insert(to, p)
relocate(ps, mov, p) ==
    [sq \in (DOMAIN ps \ {mov.from}) \cup {mov.to} |-> IF sq = mov.to THEN p ELSE ps[sq]]

\* The success branch working on a copy of the position: only the history grows.
apply_move_history_only(b, mov) == [b EXCEPT !.moves = Append(b.moves, mov)]

\* The success branch inserting the move at the front of the history.
apply_move_prepend(b, mov) ==
    [pieces |-> relocate(b.pieces, mov, moved_piece(b.pieces[mov.from], mov)),
     turn_color |-> other_color(b.turn_color),
     moves |-> <<mov>> \o b.moves]

apply_move(b, mov) ==
    [pieces |-> relocate(b.pieces, mov, moved_piece(b.pieces[mov.from], mov)),
     turn_color |-> other_color(b.turn_color),
     moves |-> Append(b.moves, mov)]

\* make_move with the turn flip after the if, so that it runs on both branches.
make_move_given_flip_always(b, mov, generated) ==
    IF mov \in generated
    THEN [result |-> Ok(NoValue), board |-> apply_move(b, mov)]
    ELSE [result |-> Err, board |-> [b EXCEPT !.turn_color = other_color(b.turn_color)]]

\* The body of make_move, given the Vec legal_moves() returned: the result and the
\* Board afterwards.
make_move_given(b, mov, generated) ==
    IF mov \in generated
    THEN [result |-> Ok(NoValue), board |-> apply_move(b, mov)]
    ELSE [result |-> Err, board |-> b]

make_move(b, mov) == make_move_given(b, mov, legal_moves(b))

\* ----------------------------------------------------- Coordinate::new
\* The characters, with their code points: the file letters and 'i', the letter
\* after 'h'; the digits and the minus sign; the piece letters, 'x', and 'Z', which
\* like the digits and the newline lies below 96; and U+0161, a character above 255
\* whose low byte is that of 'a'.
LowerLetters == <<"a", "b", "c", "d", "e", "f", "g", "h", "i">>

Digits == <<"0", "1", "2", "3", "4", "5", "6", "7", "8", "9">>

CharCode ==
    [c \in {LowerLetters[i] : i \in 1..9} \cup {Digits[i] : i \in 1..10}
             \cup {"N", "B", "R", "Q", "K", "Z", "x", "-", "\n", "U+0161"} |->
        IF \E i \in 1..9 : LowerLetters[i] = c THEN 96 + (CHOOSE i \in 1..9 : LowerLetters[i] = c)
        ELSE IF \E i \in 1..10 : Digits[i] = c THEN 47 + (CHOOSE i \in 1..10 : Digits[i] = c)
        ELSE CASE c = "N" -> 78 [] c = "B" -> 66 [] c = "R" -> 82 [] c = "Q" -> 81
               [] c = "K" -> 75 [] c = "Z" -> 90 [] c = "x" -> 120 [] c = "-" -> 45
               [] c = "\n" -> 10 [] c = "U+0161" -> 353]

\* The characters a line is typed from.
Chars == {"a", "e", "i", "N", "B", "R", "Q", "K", "Z", "x", "0", "4", "5", "9", "\n", "U+0161"}

\* c as u8
as_u8(c) == CharCode[c] % 256

\* n as i8, for n in 0..255
as_i8(n) == IF n > 127 THEN n - 256 ELSE n

\* c as u8 - 96 leaves the range of u8 when the byte is below 96: a build with
\* overflow checks panics there, a build without them wraps.
underflows(c) == as_u8(c) < 96

\* (c as u8 - 96) as i8, in a build that wraps.
file_of(c) == as_i8((as_u8(c) - 96) % 256)

Coordinate_new(f, r) == Coordinate(file_of(f), r)

\* ---------------------------------------------------------- parse_alg
\* The process aborting inside the call.
Panic == [ok |-> FALSE, panic |-> TRUE]

piece_letter(c) ==
    CASE c = "N" -> Knight [] c = "B" -> Bishop [] c = "R" -> Rook
      [] c = "Q" -> Queen [] c = "K" -> King

PieceLetters == {"N", "B", "R", "Q", "K"}

\* String::from(c2).parse::<i8>(): a single ASCII digit parses, nothing else does.
parse_digit(c) == IF as_u8(c) = CharCode[c] /\ as_u8(c) \in 48..57 THEN Ok(as_u8(c) - 48) ELSE Err

pawns_to_move(b) ==
    {sq \in DOMAIN b.pieces :
        b.pieces[sq].color = b.turn_color /\ b.pieces[sq].piece_type = Pawn}

\* The file-letter arm once a pawn has been picked.
parse_pawn(s, c, pawn_from) ==
    IF Len(s) < 2 THEN Err
    ELSE IF ~parse_digit(s[2]).ok THEN Err
    ELSE Ok(Move(pawn_from, Coordinate_new(c, parse_digit(s[2]).value), FALSE, Pawn))

\* Every outcome parse_alg can have on the text s: a result, or Panic. The filter
\* subtracts 96 from the byte only for a pawn of the side to move, so the
\* subtraction runs when there is one; the first match is any pawn of the file,
\* the map's iteration order deciding which.
parse_alg(b, s) ==
    IF Len(s) = 0 THEN {Err}
    ELSE IF s[1] \in PieceLetters
    THEN {Ok(Move(Coordinate_new("a", 2), Coordinate_new("a", 3), FALSE, piece_letter(s[1])))}
    ELSE
        (IF pawns_to_move(b) # {} /\ underflows(s[1]) THEN {Panic} ELSE {})
        \cup
        (IF \E sq \in pawns_to_move(b) : sq.file = file_of(s[1])
         THEN {parse_pawn(s, s[1], sq) : sq \in {p \in pawns_to_move(b) : p.file = file_of(s[1])}}
         ELSE {Err})

\* ------------------------------------------------------------ Move::alg
\* n as u8, for n an i8
i8_as_u8(n) == n % 256

\* n as char, for n a u8
u8_as_char(n) == CHOOSE c \in DOMAIN CharCode : CharCode[c] = n

\* The decimal text of an i8, as {} formats it.
to_string(n) ==
    (IF n < 0 THEN <<"-">> ELSE <<>>)
    \o (IF abs(n) >= 100 THEN <<Digits[(abs(n) \div 100) + 1]>> ELSE <<>>)
    \o (IF abs(n) >= 10 THEN <<Digits[((abs(n) \div 10) % 10) + 1]>> ELSE <<>>)
    \o <<Digits[(abs(n) % 10) + 1]>>

alg_letter(pt) ==
    CASE pt = Pawn -> <<>> [] pt = Knight -> <<"N">> [] pt = Bishop -> <<"B">>
      [] pt = Rook -> <<"R">> [] pt = Queen -> <<"Q">> [] pt = King -> <<"K">>

alg(m) ==
    alg_letter(m.piece_type)
    \o (IF m.capture THEN <<"x">> ELSE <<>>)
    \o <<u8_as_char((i8_as_u8(m.to.file) + 96) % 256)>>
    \o to_string(m.to.rank)

\* ------------------------------------------------------------ inputs
\* Moves a caller may hand to make_move that the generator does not list: the move
\* just played again, the knight moves towards the centre files with the capture flag
\* changed, the same moves of the knights of the side not to move, the diagonal steps
\* of the d and e pawns, and the Move parse_alg starts from.
ProbeFiles == {3, 4, 5, 6}

Replay(b) == IF b.moves = <<>> THEN {} ELSE {b.moves[Len(b.moves)]}

knights_of(b, c) ==
    {s \in DOMAIN b.pieces : b.pieces[s].color = c /\ b.pieces[s].piece_type = Knight}

KnightVariants(b) ==
    {[m EXCEPT !.capture = ~m.capture] :
        m \in {m \in UNION {knight_moves(b, sq) : sq \in knights_of(b, b.turn_color)} :
                  m.to.file \in ProbeFiles /\ m.from.file \in ProbeFiles}}

OpponentMoves(b) ==
    {m \in UNION {knight_moves([b EXCEPT !.turn_color = other_color(b.turn_color)], sq) :
                    sq \in knights_of(b, other_color(b.turn_color))} :
        m.to.file \in ProbeFiles /\ m.from.file \in ProbeFiles}

PawnDiagonals(b) ==
    {Move(sq, Coordinate(sq.file + dx, sq.rank + pawn_dir(b.turn_color)), TRUE, Pawn) :
        sq \in {s \in DOMAIN b.pieces :
                  /\ b.pieces[s].color = b.turn_color
                  /\ b.pieces[s].piece_type = Pawn
                  /\ s.file \in {4, 5}},
        dx \in {-1, 1}}

OtherInputs(b) ==
    Replay(b) \cup KnightVariants(b) \cup OpponentMoves(b) \cup PawnDiagonals(b)
       \cup {Move(Coordinate(1, 2), Coordinate(1, 3), FALSE, King)}

\* ----------------------------------------------------------- actions
SetBoard(b) ==
    /\ pieces' = b.pieces
    /\ turn_color' = b.turn_color
    /\ moves' = b.moves

Init ==
    /\ pieces = Board_new.pieces
    /\ turn_color = Board_new.turn_color
    /\ moves = Board_new.moves
    /\ op = "new"
    /\ arg = NoValue
    /\ ret = NoValue
    /\ successes = 0

\* A call of make_move with mov.
MakeMoveWith(mov, generated, bound) ==
    \E r \in {make_move_given(Board, mov, generated)} :
        /\ r.result.ok => Len(moves) < bound
        /\ SetBoard(r.board)
        /\ op' = "make_move"
        /\ arg' = mov
        /\ ret' = r.result
        /\ successes' = IF r.result.ok THEN successes + 1 ELSE successes

MakeMove ==
    \E generated \in {legal_moves(Board)} :
        \E mov \in generated \cup OtherInputs(Board) : MakeMoveWith(mov, generated, MaxMoves)

\* A call of legal_moves.
LegalMoves ==
    /\ op' = "legal_moves"
    /\ arg' = NoValue
    /\ ret' = legal_moves(Board)
    /\ UNCHANGED <<pieces, turn_color, moves, successes>>

Next == MakeMove \/ LegalMoves

Spec == Init /\ [][Next]_vars

\* ---------------------------------------------------- the b-file lane
\* The same calls with the moves a caller picks narrowed to those that start on the
\* b file and the pawn moves of the c file, so that a run goes deeper.
LaneFiles == {2}
TempoFiles == {3}

LaneInputs(generated) ==
    {m \in generated :
        m.from.file \in LaneFiles \/ (m.piece_type = Pawn /\ m.from.file \in TempoFiles)}

LaneMove ==
    \E generated \in {legal_moves(Board)} :
        \E mov \in LaneInputs(generated) \cup Replay(Board) :
            MakeMoveWith(mov, generated, MaxLaneMoves)

NextLane == LaneMove \/ LegalMoves

SpecLane == Init /\ [][NextLane]_vars

\* ------------------------------------------------------ the knight raid
\* The same calls with the moves a caller picks narrowed to the knight moves within
\* the files b to e and the pawn moves of the e file, so that a run reaches the
\* captures a knight makes, up to those on the far back rank.
RaidFiles == 2..5
RaidPawnFiles == {5}

RaidInputs(generated) ==
    {m \in generated :
        \/ m.piece_type = Knight /\ m.from.file \in RaidFiles /\ m.to.file \in RaidFiles
        \/ m.piece_type = Pawn /\ m.from.file \in RaidPawnFiles}

RaidMove ==
    \E generated \in {legal_moves(Board)} :
        \E mov \in RaidInputs(generated) \cup Replay(Board) :
            MakeMoveWith(mov, generated, MaxRaidMoves)

NextRaid == RaidMove \/ LegalMoves

SpecRaid == Init /\ [][NextRaid]_vars

\* ---------------------------------------------------------------- main
\* The read loop: a line is read and parsed; a parsed Move goes to make_move, a
\* parse error goes back to reading; a panic ends the process. A line is what was
\* typed, of which parse_alg reads the first two characters, and the newline;
\* at the end of the input read_line leaves the line empty.
TypedLines == UNION {[1..n -> Chars \ {"\n"}] : n \in 0..2}

Lines == {<<>>} \cup {t \o <<"\n">> : t \in TypedLines}

MainParse ==
    /\ op \in {"new", "make_move"} \/ (op = "parse_alg" /\ ~ret.ok)
    /\ \E s \in Lines : \E r \in parse_alg(Board, s) :
         /\ op' = (IF r = Panic THEN "panic" ELSE "parse_alg")
         /\ arg' = s
         /\ ret' = (IF r = Panic THEN NoValue ELSE r)
    /\ UNCHANGED <<pieces, turn_color, moves, successes>>

MainMove ==
    /\ op = "parse_alg" /\ ret.ok
    /\ MakeMoveWith(ret.value, legal_moves(Board), MaxMainMoves)

NextMain == MainParse \/ MainMove

SpecMain == Init /\ [][NextMain]_vars

\* ------------------------------------------------- given positions
\* legal_moves as a function of the position it is given: a knight of the side to
\* move on any square, and on each square an L-step away from it nothing, a pawn of
\* its own colour or a rook of the other colour.
Squares == {Coordinate(f, r) : f \in 1..8, r \in 1..8}

LSteps(k) == {d \in Squares : abs(d.file - k.file) * abs(d.rank - k.rank) = 2}

KnightPosition(k, c, own, opp) ==
    [sq \in {k} \cup own \cup opp |->
        IF sq = k THEN Piece(Knight, c)
        ELSE IF sq \in own THEN [Piece(Pawn, c) EXCEPT !.has_moved = TRUE]
        ELSE Piece(Rook, other_color(c))]

InitPosition ==
    /\ \E k \in Squares, c \in {White, Black} :
         \E own \in SUBSET LSteps(k) :
            \E opp \in SUBSET (LSteps(k) \ own) :
                /\ pieces = KnightPosition(k, c, own, opp)
                /\ turn_color = c
    /\ moves = <<>>
    /\ op = "given"
    /\ arg = NoValue
    /\ ret = NoValue
    /\ successes = 0

NextPosition == LegalMoves

SpecPosition == InitPosition /\ [][NextPosition]_vars

\* ------------------------------------------------------------ claims
Doubled == {sq \in DOMAIN pieces : pieces[sq].doubled_last_turn}

AppliedMove == op = "make_move" /\ ret.ok

IsDoubleStep(mov) == mov.piece_type = Pawn /\ abs(mov.to.rank - mov.from.rank) = 2

\* The pawns of the side to move.
OwnPawns ==
    {sq \in DOMAIN pieces : pieces[sq].color = turn_color /\ pieces[sq].piece_type = Pawn}

Ahead(sq, n) == Coordinate(sq.file, sq.rank + n * pawn_dir(turn_color))

Diagonal(sq, dx) == Coordinate(sq.file + dx, sq.rank + pawn_dir(turn_color))

\* C1: a make_move call with a Move that legal_moves() does not list returns the
\* error and leaves the position map, turn_color and the history as they were.
C1_IllegalMoveChangesNothing ==
    [][(op' = "make_move" /\ arg' \notin legal_moves(Board))
          => (ret' = Err /\ pieces' = pieces /\ turn_color' = turn_color /\ moves' = moves)]_vars

C1_Witness ==
    /\ op = "make_move" /\ ~ret.ok
    /\ moves # <<>>
    /\ arg.piece_type = Knight /\ arg.from \in DOMAIN pieces

\* C2: White is to move iff the number of successful make_move calls is even,
\* whatever failed calls came in between.
C2_TurnParity == (turn_color = White) <=> (successes % 2 = 0)

C2_Witness ==
    /\ successes = 2 /\ turn_color = White
    /\ op = "make_move" /\ ~ret.ok

\* C3: after a successful two-rank pawn advance exactly one piece has
\* doubled_last_turn, after any other successful move none has, and never more
\* than one piece has it.
C3_DoubledFlag ==
    /\ Cardinality(Doubled) <= 1
    /\ AppliedMove => Cardinality(Doubled) = (IF IsDoubleStep(arg) THEN 1 ELSE 0)

\* C4: when make_move(m) has succeeded, the next call make_move(m) with the same
\* Move fails and changes nothing.
C4_SecondCallRejected ==
    [][(AppliedMove /\ op' = "make_move" /\ arg' = arg)
          => (ret' = Err /\ pieces' = pieces /\ turn_color' = turn_color /\ moves' = moves)]_vars

C4_Witness ==
    /\ op = "make_move" /\ ~ret.ok
    /\ moves # <<>> /\ arg = moves[Len(moves)]
    /\ successes = Len(moves)

\* C5: on the board of Board::new legal_moves() is the 16 pawn steps and the 4
\* knight moves, none a capture, and nothing else.
StartMoves ==
    {Move(Coordinate(f, 2), Coordinate(f, r), FALSE, Pawn) : f \in 1..8, r \in {3, 4}}
    \cup {Move(Coordinate(2, 1), Coordinate(1, 3), FALSE, Knight),
          Move(Coordinate(2, 1), Coordinate(3, 3), FALSE, Knight),
          Move(Coordinate(7, 1), Coordinate(6, 3), FALSE, Knight),
          Move(Coordinate(7, 1), Coordinate(8, 3), FALSE, Knight)}

C5_StartMoves ==
    (op = "legal_moves" /\ moves = <<>>) => (ret = StartMoves /\ Cardinality(ret) = 20)

C5_Witness == op = "legal_moves" /\ moves = <<>> /\ turn_color = White /\ successes = 0

\* C6: legal_moves() lists a pawn's two-square advance iff the pawn has not moved
\* and the squares one and two ranks ahead of it are both empty.
C6_DoubleStepNeedsBothEmpty ==
    op = "legal_moves" =>
        \A sq \in OwnPawns :
            (Move(sq, Ahead(sq, 2), FALSE, Pawn) \in ret)
              <=> (/\ ~pieces[sq].has_moved
                   /\ Ahead(sq, 1) \notin DOMAIN pieces
                   /\ Ahead(sq, 2) \notin DOMAIN pieces)

\* C7: legal_moves() lists a pawn's diagonal step iff an opposing piece stands on
\* the destination.
C7_DiagonalCapture ==
    op = "legal_moves" =>
        \A sq \in OwnPawns : \A dx \in {-1, 1} :
            (\E m \in ret : m.from = sq /\ m.to = Diagonal(sq, dx))
              <=> (/\ Diagonal(sq, dx) \in DOMAIN pieces
                   /\ pieces[Diagonal(sq, dx)].color # turn_color)

\* C9: every occupied square and every destination legal_moves() lists lies in
\* files 1..8 and ranks 1..8.
OnBoard(sq) == sq.file \in 1..8 /\ sq.rank \in 1..8

C9_StaysOnBoard ==
    /\ \A sq \in DOMAIN pieces : OnBoard(sq)
    /\ op = "legal_moves" => \A m \in ret : OnBoard(m.to)

\* C8: the knight moves legal_moves() lists for a knight of the side to move are
\* the L-steps that stay on the board and end on an empty square or on an opposing
\* piece, with capture set iff the destination is occupied.
OwnKnights ==
    {sq \in DOMAIN pieces : pieces[sq].color = turn_color /\ pieces[sq].piece_type = Knight}

Occupied(sq) == sq \in DOMAIN pieces

KnightMovesExpected(k) ==
    {Move(k, d, Occupied(d), Knight) :
        d \in {d \in LSteps(k) : ~Occupied(d) \/ pieces[d].color # turn_color}}

C8_KnightMoves ==
    op = "legal_moves" =>
        \A k \in OwnKnights :
            LET listed == {m \in ret : m.from = k}
            IN  /\ listed = KnightMovesExpected(k)
                /\ (k = Coordinate(1, 1) /\ ~Occupied(Coordinate(2, 3)) /\ ~Occupied(Coordinate(3, 2)))
                      => Cardinality(listed) = 2
                /\ (Cardinality(LSteps(k)) = 8
                      /\ \A d \in LSteps(k) : Occupied(d) /\ pieces[d].color = turn_color)
                      => listed = {}

C8_Witness ==
    /\ op = "legal_moves"
    /\ \E k \in OwnKnights :
         /\ Cardinality(LSteps(k)) = 8
         /\ \E d \in LSteps(k) : Occupied(d) /\ pieces[d].color = turn_color
         /\ \E m \in ret : m.from = k /\ m.capture
         /\ \E m \in ret : m.from = k /\ ~m.capture

\* C10: parse_alg returns no Move whose destination is off the board; a rank
\* digit of 0 or 9 is a parse error.
C10_ParseRejectsOffBoard ==
    (op = "parse_alg" /\ ret.ok) => OnBoard(ret.value.to)

\* C11: for every Move m legal_moves() lists that no other listed move of the same
\* piece type shares the destination with, parse_alg(m.alg()) on the same board
\* returns m.
NeedsNoDisambiguation(m, listed) ==
    ~\E n \in listed : n # m /\ n.piece_type = m.piece_type /\ n.to = m.to

C11_RoundTrip ==
    op = "legal_moves" =>
        \A m \in ret : NeedsNoDisambiguation(m, ret) => parse_alg(Board, alg(m)) = {Ok(m)}

\* C16: parse_alg returns a Move or a parse error and never aborts; a first
\* character below 96 that is no piece letter gives a parse error.
C16_ParseNeverAborts ==
    /\ op # "panic"
    /\ (op = "parse_alg" /\ arg # <<>> /\ as_u8(arg[1]) < 96 /\ arg[1] \notin PieceLetters)
          => ret = Err

\* C17: a text that starts with a piece letter parses to the Move a2->a3 of that
\* piece type without capture; make_move rejects it in every state; so in the
\* read loop only pawns move and no piece is captured.
LetterType(c) ==
    CASE c = "N" -> Knight [] c = "B" -> Bishop [] c = "R" -> Rook
      [] c = "Q" -> Queen [] c = "K" -> King

StubMove(pt) == Move(Coordinate(1, 2), Coordinate(1, 3), FALSE, pt)

C17_PieceLetterMovesRejected ==
    /\ (op = "parse_alg" /\ arg # <<>> /\ arg[1] \in PieceLetters)
          => ret = Ok(StubMove(LetterType(arg[1])))
    /\ \A pt \in {Knight, Bishop, Rook, Queen, King} : StubMove(pt) \notin legal_moves(Board)
    /\ (op = "make_move" /\ arg.piece_type # Pawn) => ~ret.ok
    /\ \A i \in 1..Len(moves) : moves[i].piece_type = Pawn /\ ~moves[i].capture
    /\ Cardinality(DOMAIN pieces) = 32
    /\ \A sq \in DOMAIN pieces :
          pieces[sq].piece_type # Pawn => (sq \in StartSquares /\ pieces[sq] = Board_new.pieces[sq])

C17_Witness ==
    /\ op = "make_move" /\ ~ret.ok
    /\ arg = StubMove(Knight)
    /\ moves # <<>>

\* C12: after a successful make_move(m), m.from is empty, m.to holds the piece that
\* stood on m.from (same type and colour, has_moved set, doubled_last_turn set
\* for a pawn that changed rank by 2), and every other square holds what it held.
\* From the start position, pawn e2->e4 leaves e2 empty, a White pawn with both
\* flags on e4, Black to move and a history of length 1.
MoveE2E4 == Move(Coordinate(5, 2), Coordinate(5, 4), FALSE, Pawn)

SameKind(p, q) == p.piece_type = q.piece_type /\ p.color = q.color

C12_MoveEffect ==
    [][(op' = "make_move" /\ ret'.ok) =>
          /\ arg'.from \in DOMAIN pieces
          /\ arg'.from \notin DOMAIN pieces'
          /\ arg'.to \in DOMAIN pieces'
          /\ SameKind(pieces'[arg'.to], pieces[arg'.from])
          /\ pieces'[arg'.to].has_moved
          /\ (pieces[arg'.from].piece_type = Pawn /\ abs(arg'.to.rank - arg'.from.rank) = 2)
                => pieces'[arg'.to].doubled_last_turn
          /\ \A sq \in (DOMAIN pieces \cup DOMAIN pieces') \ {arg'.from, arg'.to} :
                /\ sq \in DOMAIN pieces /\ sq \in DOMAIN pieces'
                /\ SameKind(pieces'[sq], pieces[sq])
          /\ (moves = <<>> /\ arg' = MoveE2E4) =>
                /\ Coordinate(5, 2) \notin DOMAIN pieces'
                /\ pieces'[Coordinate(5, 4)] =
                      [piece_type |-> Pawn, color |-> White,
                       doubled_last_turn |-> TRUE, has_moved |-> TRUE]
                /\ turn_color' = Black
                /\ Len(moves') = 1]_vars

C12_Witness ==
    /\ AppliedMove /\ arg.capture
    /\ moves[1] = MoveE2E4

\* C13: the history is append-only: a successful make_move(m) appends m, every
\* other step leaves the history as it was, and its length is the number of
\* successful make_move calls.
C13_HistoryAppendOnly ==
    /\ [](Len(moves) = successes)
    /\ [][IF op' = "make_move" /\ ret'.ok
          THEN moves' = Append(moves, arg')
          ELSE moves' = moves]_vars

C13_Witness ==
    /\ op = "make_move" /\ ~ret.ok
    /\ Len(moves) = 2 /\ successes = 2

\* C14: legal_moves() lists no move of a Bishop, Rook, Queen or King; each such
\* piece on the board stands where Board::new placed it with has_moved false, and
\* leaves the board only by a capture on its square.
Immobile == {Bishop, Rook, Queen, King}

C14_NoSlidingOrKingMoves ==
    /\ [](/\ \A m \in legal_moves(Board) : m.piece_type \notin Immobile
          /\ \A sq \in DOMAIN pieces :
                pieces[sq].piece_type \in Immobile =>
                    (sq \in StartSquares /\ pieces[sq] = Board_new.pieces[sq]))
    /\ [][\A sq \in DOMAIN pieces :
            (/\ pieces[sq].piece_type \in Immobile
             /\ (sq \notin DOMAIN pieces' \/ pieces'[sq] # pieces[sq]))
                => (/\ op' = "make_move" /\ ret'.ok
                    /\ arg'.to = sq /\ arg'.capture
                    /\ pieces'[sq].color # pieces[sq].color)]_vars

C14_Witness ==
    /\ AppliedMove /\ arg.capture
    /\ arg.to.rank \in {1, 8}
    /\ Board_new.pieces[arg.to].piece_type \in Immobile

\* C15: every listed move starts on a square that holds a piece of the side to move
\* of the move's piece type and ends on another square; so make_move finds the
\* piece at m.from and only moves a piece of the side that is to move.
C15_MovesStartOnOwnPiece ==
    /\ [](\A m \in legal_moves(Board) :
             /\ m.from \in DOMAIN pieces
             /\ pieces[m.from].color = turn_color
             /\ pieces[m.from].piece_type = m.piece_type
             /\ m.to # m.from)
    /\ [][(op' = "make_move" /\ ret'.ok) =>
             /\ arg'.from \in DOMAIN pieces
             /\ pieces[arg'.from].color = turn_color
             /\ pieces'[arg'.to].color = turn_color]_vars

C15_Witness ==
    /\ AppliedMove
    /\ arg.piece_type = Knight /\ pieces[arg.to].color = Black
    /\ Len(moves) = 2

\* C18: each file holds at most one pawn of each colour and a pawn move keeps the
\* file; so for a text that names a file parse_alg has one outcome whatever the
\* order in which the position map is visited (the abort of an overflow-checked
\* build aside, which does not depend on that order).
PawnsOn(c, f) ==
    {sq \in DOMAIN pieces :
        pieces[sq].piece_type = Pawn /\ pieces[sq].color = c /\ sq.file = f}

ParseTexts ==
    {<<"e", d, "\n">> : d \in {"4", "5"}} \cup {<<"d", "5", "\n">>, <<"4", "e", "\n">>, <<"\n">>}

C18_OnePawnPerFile ==
    /\ [](/\ \A c \in {White, Black} : \A f \in 1..8 : Cardinality(PawnsOn(c, f)) <= 1
          /\ \A s \in ParseTexts : Cardinality(parse_alg(Board, s) \ {Panic}) = 1)
    /\ [][(op' = "make_move" /\ ret'.ok /\ arg'.piece_type = Pawn)
             => arg'.to.file = arg'.from.file]_vars

C18_Witness ==
    /\ AppliedMove
    /\ \E r \in parse_alg(Board, <<"e", "5", "\n">>) :
          r.ok /\ r.value.from \notin StartSquares /\ r.value.from.file = 5

\* C19: a piece with has_moved false stands where Board::new placed it, with its
\* type and colour; a piece standing on a square it reached through make_move has
\* has_moved true; a two-square pawn advance is only listed for a White pawn on
\* rank 2 or a Black pawn on rank 7.
\* The entries of the history whose destination no later move left or took.
StandingArrivals ==
    {i \in 1..Len(moves) :
        ~\E j \in (i + 1)..Len(moves) : moves[j].from = moves[i].to \/ moves[j].to = moves[i].to}

C19_HasMovedTiedToPosition ==
    /\ \A sq \in DOMAIN pieces :
          ~pieces[sq].has_moved =>
              (sq \in StartSquares /\ SameKind(pieces[sq], Board_new.pieces[sq]))
    /\ \A i \in StandingArrivals :
          moves[i].to \in DOMAIN pieces /\ pieces[moves[i].to].has_moved
    /\ \A m \in legal_moves(Board) :
          (m.piece_type = Pawn /\ abs(m.to.rank - m.from.rank) = 2)
              => m.from.rank = pawn_rank(turn_color)

C19_Witness ==
    /\ AppliedMove
    /\ arg.to \in StartSquares
    /\ pieces[arg.to].has_moved
    /\ SameKind(pieces[arg.to], Board_new.pieces[arg.to])

\* C20: a successful make_move(m) onto an occupied square removes exactly one piece,
\* of the opposing colour, and m.capture is true; onto an empty square it removes
\* none and m.capture is false; no other step changes the pieces, and the board
\* never holds more than 32 pieces.
CountOf(ps, c) == Cardinality({sq \in DOMAIN ps : ps[sq].color = c})

C20_PieceConservation ==
    /\ [](Cardinality(DOMAIN pieces) <= 32)
    /\ [][IF op' = "make_move" /\ ret'.ok
          THEN /\ CountOf(pieces', pieces[arg'.from].color) = CountOf(pieces, pieces[arg'.from].color)
               /\ IF arg'.to \in DOMAIN pieces
                  THEN /\ Cardinality(DOMAIN pieces') = Cardinality(DOMAIN pieces) - 1
                       /\ pieces[arg'.to].color # pieces[arg'.from].color
                       /\ arg'.capture
                  ELSE /\ Cardinality(DOMAIN pieces') = Cardinality(DOMAIN pieces)
                       /\ ~arg'.capture
          ELSE pieces' = pieces]_vars

C20_Witness ==
    /\ AppliedMove /\ arg.capture
    /\ Cardinality(DOMAIN pieces) <= 30
    /\ CountOf(pieces, White) < 16 /\ CountOf(pieces, Black) < 16

====
